---- MODULE Spec2Model ----
(***************************************************************************)
(* A model of optuna/pruners/successive_halving.py: the asynchronous       *)
(* successive halving pruner.  The trial store (last step, last value and  *)
(* the per-trial system attributes) is shared state; every trial runs its  *)
(* own prune() call, whose steps interleave with the calls of the others.  *)
(***************************************************************************)
EXTENDS Integers, Sequences, FiniteSets, TLC

\* ------------------------------------------------------------------ bounds
NumTrials == 2
MaxStep == 5
NumValues == 2
MaxLen == 5
MaxValue == 3
MaxDistinct == 5
MaxMinResource == 2
MaxReductionFactor == 3
MaxRate == 1
MaxRung == 3

\* --------------------------------------------------------------- constants
\* trial.last_step of a trial without a reported measurement
None == -1
\* a measurement for which math.isnan holds
NaN == -1

MINIMIZE == "minimize"
MAXIMIZE == "maximize"

Steps == 0..MaxStep
Values == {5 * i : i \in 1..NumValues}
Directions == {MINIMIZE, MAXIMIZE}

\* The configurations the pruner is constructed with: each passes __init__.
Configs ==
    { [_min_resource |-> 1, _reduction_factor |-> 4, _min_early_stopping_rate |-> 0],
      [_min_resource |-> 2, _reduction_factor |-> 2, _min_early_stopping_rate |-> 1] }

VARIABLES
    self,                \* the pruner: _min_resource, _reduction_factor, _min_early_stopping_rate
    direction,           \* study.direction
    last_step,           \* store: trial id -> last reported step, or None
    intermediate_value,  \* store: trial id -> the value reported at last_step
    system_attrs,        \* store: trial id -> (key -> value)
    pc,                  \* trial id -> position of its prune() call
    trial,               \* trial id -> the FrozenTrial its call was given
    rung,                \* trial id -> local `rung`
    trials,              \* trial id -> local `trials`: NoTrials or the snapshot
    result,              \* trial id -> the value its call returns
    writes,              \* trial id -> the set_trial_system_attr calls of its call
    reads,               \* trial id -> the get_trials calls of its call
    prev,                \* trial id -> outcome of its previous call, while undisturbed
    args,                \* inputs of a direct call of the decision engine or of __init__
    ret                  \* its result

vars == <<self, direction, last_step, intermediate_value, system_attrs, pc, trial,
          rung, trials, result, writes, reads, prev, args, ret>>

store == <<last_step, intermediate_value, system_attrs>>
config == <<self, direction>>
engine == <<args, ret>>

\* ----------------------------------------------------------------- helpers
\* A check that lets NaN through.
isnan_never(value) == FALSE

isnan(value) == value = NaN

\* `trials = None`
NoTrials == <<>>
NoAttrs == [k \in {} |-> 0]
NoTrial == [_trial_id |-> 0, last_step |-> None, value |-> NaN, system_attrs |-> NoAttrs]

_completed_rung_key(r) == <<"completed_rung_", r>>

\* The FrozenTrial of trial id t as the store holds it now.
FrozenTrial(t) ==
    [_trial_id |-> t, last_step |-> last_step[t], value |-> intermediate_value[t],
     system_attrs |-> system_attrs[t]]

\* study.get_trials(deepcopy=False): the trials of the study, as a list, as the store
\* holds them at the time of the call.  Of each trial the pruner reads system_attrs
\* alone, and the list keeps that field.
get_trials == [t \in DOMAIN last_step |-> [system_attrs |-> system_attrs[t]]]

\* study._storage.set_trial_system_attr(trial_id, key, value)
set_trial_system_attr(attrs, trial_id, key, value) ==
    [attrs EXCEPT ![trial_id] =
        [k \in DOMAIN attrs[trial_id] \cup {key} |->
            IF k = key THEN value ELSE attrs[trial_id][k]]]

\* A threshold that leaves out the rung.
rung_promotion_step_no_rung(r) ==
    self._min_resource * (self._reduction_factor ^ self._min_early_stopping_rate)

\* A threshold that leaves out min_early_stopping_rate.
rung_promotion_step_no_rate(r) == self._min_resource * (self._reduction_factor ^ r)

rung_promotion_step(r) ==
    self._min_resource * (self._reduction_factor ^ (self._min_early_stopping_rate + r))

RECURSIVE _scan_rung(_, _)
_scan_rung(tr, r) ==
    IF _completed_rung_key(r) \in DOMAIN tr.system_attrs THEN _scan_rung(tr, r + 1) ELSE r

\* A scan that starts at rung 1.
_get_current_rung_skip_zero(tr) == _scan_rung(tr, 1)

\* A scan that forgets the markers: the call starts over at rung 0.
_get_current_rung_from_zero(tr) == 0

_get_current_rung(tr) == _scan_rung(tr, 0)

RECURSIVE _collect(_, _, _)
_collect(ts, rung_key, i) ==
    IF i > Len(ts) THEN <<>>
    ELSE (IF rung_key \in DOMAIN ts[i].system_attrs
          THEN <<ts[i].system_attrs[rung_key]>> ELSE <<>>) \o _collect(ts, rung_key, i + 1)

_get_competing_values(ts, value, rung_key) == Append(_collect(ts, rung_key, 1), value)

\* list.sort(): ascending, by insertion.
RECURSIVE _insert(_, _)
_insert(x, s) ==
    IF s = <<>> THEN <<x>>
    ELSE IF x <= Head(s) THEN <<x>> \o s ELSE <<Head(s)>> \o _insert(x, Tail(s))

RECURSIVE sort(_)
sort(s) == IF s = <<>> THEN <<>> ELSE _insert(Head(s), sort(Tail(s)))

\* A decision that does not promote a value equal to the cutoff.
_is_trial_promotable_strict(value, competing_values, reduction_factor, study_direction) ==
    LET idx == (Len(competing_values) \div reduction_factor) - 1
        promotable_idx == IF idx = -1 THEN 0 ELSE idx
        sorted == sort(competing_values)
    IN  IF study_direction = MAXIMIZE
        THEN value > sorted[Len(sorted) - promotable_idx]
        ELSE value < sorted[promotable_idx + 1]

\* A decision without the `promotable_idx == -1` case: the index -1 then reads the
\* last element of the sorted list for minimize, and index -0 the first for maximize.
_is_trial_promotable_no_clamp(value, competing_values, reduction_factor, study_direction) ==
    LET promotable_idx == (Len(competing_values) \div reduction_factor) - 1
        sorted == sort(competing_values)
    IN  IF study_direction = MAXIMIZE
        THEN value >= sorted[IF promotable_idx = -1 THEN 1 ELSE Len(sorted) - promotable_idx]
        ELSE value <= sorted[IF promotable_idx = -1 THEN Len(sorted) ELSE promotable_idx + 1]

\* A decision whose index is floor(n / reduction_factor), one too many.
_is_trial_promotable_off_by_one(value, competing_values, reduction_factor, study_direction) ==
    LET promotable_idx == Len(competing_values) \div reduction_factor
        sorted == sort(competing_values)
    IN  IF promotable_idx >= Len(sorted) THEN TRUE
        ELSE IF study_direction = MAXIMIZE
        THEN value >= sorted[Len(sorted) - promotable_idx]
        ELSE value <= sorted[promotable_idx + 1]

\* A decision that ignores the study direction.
_is_trial_promotable_minimize_only(value, competing_values, reduction_factor, study_direction) ==
    LET idx == (Len(competing_values) \div reduction_factor) - 1
        promotable_idx == IF idx = -1 THEN 0 ELSE idx
        sorted == sort(competing_values)
    IN  value <= sorted[promotable_idx + 1]

_is_trial_promotable_to_next_rung(value, competing_values, reduction_factor, study_direction) ==
    LET idx == (Len(competing_values) \div reduction_factor) - 1
        promotable_idx == IF idx = -1 THEN 0 ELSE idx
        sorted == sort(competing_values)
    IN  IF study_direction = MAXIMIZE
        THEN value >= sorted[Len(sorted) - promotable_idx]
        ELSE value <= sorted[promotable_idx + 1]

\* -------------------------------------------------------------------- init
Idle(ids) ==
    /\ pc = [t \in ids |-> "idle"]
    /\ trial = [t \in ids |-> NoTrial]
    /\ rung = [t \in ids |-> 0]
    /\ trials = [t \in ids |-> NoTrials]
    /\ result = [t \in ids |-> FALSE]
    /\ writes = [t \in ids |-> <<>>]
    /\ reads = [t \in ids |-> 0]
    /\ prev = [t \in ids |-> "none"]

NoEngine == args = <<>> /\ ret = <<>>

Init ==
    /\ self \in Configs
    /\ direction \in Directions
    /\ last_step = [t \in 1..NumTrials |-> None]
    /\ intermediate_value = [t \in 1..NumTrials |-> NaN]
    /\ system_attrs = [t \in 1..NumTrials |-> NoAttrs]
    /\ Idle(1..NumTrials)
    /\ NoEngine

\* ----------------------------------------------------------------- actions
\* The objective reports a measurement: trial.report(value, step).  The store keeps
\* the value of the last step; a report at an earlier step changes neither.
Report(t) ==
    /\ pc[t] = "idle"
    /\ \E step \in Steps, value \in Values \cup {NaN} :
        /\ step >= last_step[t]
        /\ <<step, value>> # <<last_step[t], intermediate_value[t]>>
        /\ last_step' = [last_step EXCEPT ![t] = step]
        /\ intermediate_value' = [intermediate_value EXCEPT ![t] = value]
    /\ prev' = [prev EXCEPT ![t] = "none"]
    /\ UNCHANGED <<config, system_attrs, pc, trial, rung, trials, result, writes, reads, engine>>

\* A call that prunes a trial without a measurement.
Call_prune_without_step(t) ==
    /\ pc[t] = "idle"
    /\ trial' = [trial EXCEPT ![t] = FrozenTrial(t)]
    /\ writes' = [writes EXCEPT ![t] = <<>>]
    /\ reads' = [reads EXCEPT ![t] = 0]
    /\ trials' = [trials EXCEPT ![t] = NoTrials]
    /\ IF last_step[t] = None
       THEN /\ result' = [result EXCEPT ![t] = TRUE]
            /\ pc' = [pc EXCEPT ![t] = "return"]
            /\ rung' = rung
       ELSE /\ rung' = [rung EXCEPT ![t] = _get_current_rung(FrozenTrial(t))]
            /\ pc' = [pc EXCEPT ![t] = "loop"]
            /\ result' = result
    /\ UNCHANGED <<config, store, prev, engine>>

\* prune(study, trial), lines 100-106.
Call(t) ==
    /\ pc[t] = "idle"
    /\ trial' = [trial EXCEPT ![t] = FrozenTrial(t)]
    /\ writes' = [writes EXCEPT ![t] = <<>>]
    /\ reads' = [reads EXCEPT ![t] = 0]
    /\ trials' = [trials EXCEPT ![t] = NoTrials]
    /\ IF last_step[t] = None
       THEN /\ result' = [result EXCEPT ![t] = FALSE]
            /\ pc' = [pc EXCEPT ![t] = "return"]
            /\ rung' = rung
       ELSE /\ rung' = [rung EXCEPT ![t] = _get_current_rung(FrozenTrial(t))]
            /\ pc' = [pc EXCEPT ![t] = "loop"]
            /\ result' = result
    /\ UNCHANGED <<config, store, prev, engine>>

\* A loop head that fetches the trials at every rung.
Loop_fetch_every_rung(t) ==
    /\ pc[t] = "loop"
    /\ IF trial[t].last_step < rung_promotion_step(rung[t])
       THEN /\ result' = [result EXCEPT ![t] = FALSE]
            /\ pc' = [pc EXCEPT ![t] = "return"]
            /\ UNCHANGED <<trials, reads>>
       ELSE IF isnan(trial[t].value)
       THEN /\ result' = [result EXCEPT ![t] = TRUE]
            /\ pc' = [pc EXCEPT ![t] = "return"]
            /\ UNCHANGED <<trials, reads>>
       ELSE /\ trials' = [trials EXCEPT ![t] = get_trials]
            /\ reads' = [reads EXCEPT ![t] = @ + 1]
            /\ pc' = [pc EXCEPT ![t] = "set"]
            /\ result' = result
    /\ UNCHANGED <<config, store, trial, rung, writes, prev, engine>>

\* A loop head that stops at a rung whose threshold the step has just reached.
Loop_threshold_exclusive(t) ==
    /\ pc[t] = "loop"
    /\ IF trial[t].last_step <= rung_promotion_step(rung[t])
       THEN /\ result' = [result EXCEPT ![t] = FALSE]
            /\ pc' = [pc EXCEPT ![t] = "return"]
            /\ UNCHANGED <<trials, reads>>
       ELSE IF isnan(trial[t].value)
       THEN /\ result' = [result EXCEPT ![t] = TRUE]
            /\ pc' = [pc EXCEPT ![t] = "return"]
            /\ UNCHANGED <<trials, reads>>
       ELSE /\ IF trials[t] = NoTrials
               THEN /\ trials' = [trials EXCEPT ![t] = get_trials]
                    /\ reads' = [reads EXCEPT ![t] = @ + 1]
               ELSE UNCHANGED <<trials, reads>>
            /\ pc' = [pc EXCEPT ![t] = "set"]
            /\ result' = result
    /\ UNCHANGED <<config, store, trial, rung, writes, prev, engine>>

\* The head of the loop, lines 109-118.
Loop(t) ==
    /\ pc[t] = "loop"
    /\ IF trial[t].last_step < rung_promotion_step(rung[t])
       THEN /\ result' = [result EXCEPT ![t] = FALSE]
            /\ pc' = [pc EXCEPT ![t] = "return"]
            /\ UNCHANGED <<trials, reads>>
       ELSE IF isnan(trial[t].value)
       THEN /\ result' = [result EXCEPT ![t] = TRUE]
            /\ pc' = [pc EXCEPT ![t] = "return"]
            /\ UNCHANGED <<trials, reads>>
       ELSE /\ IF trials[t] = NoTrials
               THEN /\ trials' = [trials EXCEPT ![t] = get_trials]
                    /\ reads' = [reads EXCEPT ![t] = @ + 1]
               ELSE UNCHANGED <<trials, reads>>
            /\ pc' = [pc EXCEPT ![t] = "set"]
            /\ result' = result
    /\ UNCHANGED <<config, store, trial, rung, writes, prev, engine>>

\* A write addressed to the first trial of the study, whoever is deciding.
SetAttr_first_trial(t) ==
    /\ pc[t] = "set"
    /\ LET rung_key == _completed_rung_key(rung[t]) IN
        /\ system_attrs' =
            set_trial_system_attr(system_attrs, 1, rung_key, trial[t].value)
        /\ writes' = [writes EXCEPT ![t] = Append(@, <<1, rung_key, trial[t].value>>)]
    /\ prev' = [u \in DOMAIN prev |-> IF u = t THEN prev[u] ELSE "none"]
    /\ pc' = [pc EXCEPT ![t] = "decide"]
    /\ UNCHANGED <<config, last_step, intermediate_value, trial, rung, trials, result, reads,
                   engine>>

\* A write that keys every marker as rung 0.
SetAttr_first_rung_key(t) ==
    /\ pc[t] = "set"
    /\ LET rung_key == _completed_rung_key(0) IN
        /\ system_attrs' =
            set_trial_system_attr(system_attrs, trial[t]._trial_id, rung_key, trial[t].value)
        /\ writes' = [writes EXCEPT ![t] =
                        Append(@, <<trial[t]._trial_id, rung_key, trial[t].value>>)]
    /\ prev' = [u \in DOMAIN prev |-> IF u = t THEN prev[u] ELSE "none"]
    /\ pc' = [pc EXCEPT ![t] = "decide"]
    /\ UNCHANGED <<config, last_step, intermediate_value, trial, rung, trials, result, reads,
                   engine>>

\* A write that stores the marker only once the decision has come out as promoted.
SetAttr_only_if_promoted(t) ==
    /\ pc[t] = "set"
    /\ LET rung_key == _completed_rung_key(rung[t]) IN
        IF _is_trial_promotable_to_next_rung(
               trial[t].value, _get_competing_values(trials[t], trial[t].value, rung_key),
               self._reduction_factor, direction)
        THEN /\ system_attrs' =
                  set_trial_system_attr(system_attrs, trial[t]._trial_id, rung_key,
                                        trial[t].value)
             /\ writes' = [writes EXCEPT ![t] =
                             Append(@, <<trial[t]._trial_id, rung_key, trial[t].value>>)]
        ELSE UNCHANGED <<system_attrs, writes>>
    /\ prev' = [u \in DOMAIN prev |-> IF u = t THEN prev[u] ELSE "none"]
    /\ pc' = [pc EXCEPT ![t] = "decide"]
    /\ UNCHANGED <<config, last_step, intermediate_value, trial, rung, trials, result, reads,
                   engine>>

\* Lines 120-122: the completion marker of the rung is stored.
SetAttr(t) ==
    /\ pc[t] = "set"
    /\ LET rung_key == _completed_rung_key(rung[t]) IN
        /\ system_attrs' =
            set_trial_system_attr(system_attrs, trial[t]._trial_id, rung_key, trial[t].value)
        /\ writes' = [writes EXCEPT ![t] =
                        Append(@, <<trial[t]._trial_id, rung_key, trial[t].value>>)]
    /\ prev' = [u \in DOMAIN prev |-> IF u = t THEN prev[u] ELSE "none"]
    /\ pc' = [pc EXCEPT ![t] = "decide"]
    /\ UNCHANGED <<config, last_step, intermediate_value, trial, rung, trials, result, reads,
                   engine>>

\* A loop that goes on to the next rung without being promoted.
Decide_keep_going(t) ==
    /\ pc[t] = "decide"
    /\ rung' = [rung EXCEPT ![t] = @ + 1]
    /\ pc' = [pc EXCEPT ![t] = "loop"]
    /\ UNCHANGED <<config, store, trial, trials, result, writes, reads, prev, engine>>

\* A decision against the trials as the store holds them at decision time.
Decide_fresh_trials(t) ==
    /\ pc[t] = "decide"
    /\ IF ~ _is_trial_promotable_to_next_rung(
               trial[t].value,
               _get_competing_values(
                   [u \in DOMAIN trials[t] |->
                       IF u = t THEN trials[t][u] ELSE [system_attrs |-> system_attrs[u]]],
                   trial[t].value, _completed_rung_key(rung[t])),
               self._reduction_factor, direction)
       THEN /\ result' = [result EXCEPT ![t] = TRUE]
            /\ pc' = [pc EXCEPT ![t] = "return"]
            /\ rung' = rung
       ELSE /\ rung' = [rung EXCEPT ![t] = @ + 1]
            /\ pc' = [pc EXCEPT ![t] = "loop"]
            /\ result' = result
    /\ UNCHANGED <<config, store, trial, trials, writes, reads, prev, engine>>

\* Lines 124-129: the decision at the rung.
Decide(t) ==
    /\ pc[t] = "decide"
    /\ IF ~ _is_trial_promotable_to_next_rung(
               trial[t].value,
               _get_competing_values(trials[t], trial[t].value, _completed_rung_key(rung[t])),
               self._reduction_factor, direction)
       THEN /\ result' = [result EXCEPT ![t] = TRUE]
            /\ pc' = [pc EXCEPT ![t] = "return"]
            /\ rung' = rung
       ELSE /\ rung' = [rung EXCEPT ![t] = @ + 1]
            /\ pc' = [pc EXCEPT ![t] = "loop"]
            /\ result' = result
    /\ UNCHANGED <<config, store, trial, trials, writes, reads, prev, engine>>

\* The outcome of the call that is returning.
Outcome(t) ==
    IF ~ result[t] THEN "continue"
    ELSE IF isnan(trial[t].value) THEN "prune_nan" ELSE "prune_compare"

\* The call returns to its caller; its locals are gone.
Return(t) ==
    /\ pc[t] = "return"
    /\ prev' = [prev EXCEPT ![t] = Outcome(t)]
    /\ pc' = [pc EXCEPT ![t] = "idle"]
    /\ trial' = [trial EXCEPT ![t] = NoTrial]
    /\ rung' = [rung EXCEPT ![t] = 0]
    /\ trials' = [trials EXCEPT ![t] = NoTrials]
    /\ result' = [result EXCEPT ![t] = FALSE]
    /\ writes' = [writes EXCEPT ![t] = <<>>]
    /\ reads' = [reads EXCEPT ![t] = 0]
    /\ UNCHANGED <<config, store, engine>>

Next ==
    \/ \E t \in DOMAIN pc : Report(t)
    \/ \E t \in DOMAIN pc : Call(t)
    \/ \E t \in DOMAIN pc : Loop(t)
    \/ \E t \in DOMAIN pc : SetAttr(t)
    \/ \E t \in DOMAIN pc : Decide(t)
    \/ \E t \in DOMAIN pc : Return(t)

Spec == Init /\ [][Next]_vars

\* ------------------------------------------------- four trials at rung 0
\* min_resource=1, reduction_factor=4, min_early_stopping_rate=0; trial t has
\* reported the value 5 * t at step 1, and the trials take their decisions in
\* any order and interleaving.
InitFour ==
    /\ self = [_min_resource |-> 1, _reduction_factor |-> 4, _min_early_stopping_rate |-> 0]
    /\ direction \in Directions
    /\ last_step = [t \in 1..4 |-> 1]
    /\ intermediate_value = [t \in 1..4 |-> 5 * t]
    /\ system_attrs = [t \in 1..4 |-> NoAttrs]
    /\ Idle(1..4)
    /\ NoEngine

NextFour ==
    \/ \E t \in DOMAIN pc : Call(t)
    \/ \E t \in DOMAIN pc : Loop(t)
    \/ \E t \in DOMAIN pc : SetAttr(t)
    \/ \E t \in DOMAIN pc : Decide(t)
    \/ \E t \in DOMAIN pc : Return(t)

SpecFour == InitFour /\ [][NextFour]_vars

\* ------------------------------------------- the decision engine, directly
\* _is_trial_promotable_to_next_rung applied to every list of at most MaxLen
\* values, every value of the list, and each reduction factor and direction.
ReductionFactors == {2, 3, 4}
Lists == UNION {[1..n -> 1..MaxValue] : n \in 1..MaxLen}
Range(s) == {s[i] : i \in DOMAIN s}

InitEngine ==
    /\ self = [_min_resource |-> 1, _reduction_factor |-> 4, _min_early_stopping_rate |-> 0]
    /\ direction = MINIMIZE
    /\ last_step = <<>>
    /\ intermediate_value = <<>>
    /\ system_attrs = <<>>
    /\ Idle({})
    /\ \E competing_values \in Lists :
        \E value \in Range(competing_values), reduction_factor \in ReductionFactors,
           study_direction \in Directions :
            args = [value |-> value, competing_values |-> competing_values,
                    reduction_factor |-> reduction_factor,
                    study_direction |-> study_direction]
    /\ ret = <<>>

Apply ==
    /\ ret = <<>>
    /\ ret' = [promotable |-> _is_trial_promotable_to_next_rung(
                    args.value, args.competing_values, args.reduction_factor,
                    args.study_direction)]
    /\ UNCHANGED <<config, store, pc, trial, rung, trials, result, writes, reads, prev, args>>

NextEngine == Apply

SpecEngine == InitEngine /\ [][NextEngine]_vars

\* ---------------------------------------------------------- construction
\* No pruner: __init__ has not run, or has raised.
NoPruner == <<>>

\* A constructor that accepts min_resource = 0.
__init___accepts_zero(min_resource, reduction_factor, min_early_stopping_rate) ==
    IF min_resource < 0 THEN [raised |-> "ValueError", self |-> NoPruner]
    ELSE IF reduction_factor < 2 THEN [raised |-> "ValueError", self |-> NoPruner]
    ELSE IF min_early_stopping_rate < 0 THEN [raised |-> "ValueError", self |-> NoPruner]
    ELSE [raised |-> "none",
          self |-> [_min_resource |-> min_resource, _reduction_factor |-> reduction_factor,
                    _min_early_stopping_rate |-> min_early_stopping_rate]]

\* SuccessiveHalvingPruner.__init__, lines 77-95.
__init__(min_resource, reduction_factor, min_early_stopping_rate) ==
    IF min_resource < 1 THEN [raised |-> "ValueError", self |-> NoPruner]
    ELSE IF reduction_factor < 2 THEN [raised |-> "ValueError", self |-> NoPruner]
    ELSE IF min_early_stopping_rate < 0 THEN [raised |-> "ValueError", self |-> NoPruner]
    ELSE [raised |-> "none",
          self |-> [_min_resource |-> min_resource, _reduction_factor |-> reduction_factor,
                    _min_early_stopping_rate |-> min_early_stopping_rate]]

\* The pruner is constructed for a study of one trial; the arguments range over
\* valid and invalid values.
InitCtor ==
    /\ self = NoPruner
    /\ direction \in Directions
    /\ last_step = [t \in {1} |-> None]
    /\ intermediate_value = [t \in {1} |-> NaN]
    /\ system_attrs = [t \in {1} |-> NoAttrs]
    /\ Idle({1})
    /\ \E min_resource \in 0..MaxMinResource, reduction_factor \in 1..MaxReductionFactor,
          min_early_stopping_rate \in (-1)..MaxRate :
            args = [min_resource |-> min_resource, reduction_factor |-> reduction_factor,
                    min_early_stopping_rate |-> min_early_stopping_rate]
    /\ ret = <<>>

Construct ==
    /\ ret = <<>>
    /\ LET made == __init__(args.min_resource, args.reduction_factor,
                            args.min_early_stopping_rate)
       IN  /\ ret' = [raised |-> made.raised]
           /\ self' = made.self
    /\ UNCHANGED <<direction, store, pc, trial, rung, trials, result, writes, reads, prev, args>>

\* prune is a method of the pruner: there is none to call when __init__ raised.
Constructed == self # NoPruner

NextCtor ==
    \/ Construct
    \/ Constructed /\ \E t \in DOMAIN pc : Report(t)
    \/ Constructed /\ \E t \in DOMAIN pc : Call(t)
    \/ Constructed /\ \E t \in DOMAIN pc : Loop(t)
    \/ Constructed /\ \E t \in DOMAIN pc : SetAttr(t)
    \/ Constructed /\ \E t \in DOMAIN pc : Decide(t)
    \/ Constructed /\ \E t \in DOMAIN pc : Return(t)

SpecCtor == InitCtor /\ [][NextCtor]_vars

\* ------------------------------- the decision engine, on a whole population
\* _is_trial_promotable_to_next_rung applied to each value of a list of pairwise
\* distinct values, against that list.
DistinctLists ==
    {s \in UNION {[1..n -> 1..MaxDistinct] : n \in 1..MaxDistinct} :
        \A i, j \in DOMAIN s : i # j => s[i] # s[j]}

InitTop ==
    /\ self = [_min_resource |-> 1, _reduction_factor |-> 4, _min_early_stopping_rate |-> 0]
    /\ direction = MINIMIZE
    /\ last_step = <<>>
    /\ intermediate_value = <<>>
    /\ system_attrs = <<>>
    /\ Idle({})
    /\ \E competing_values \in DistinctLists, reduction_factor \in ReductionFactors,
          study_direction \in Directions :
            args = [competing_values |-> competing_values,
                    reduction_factor |-> reduction_factor,
                    study_direction |-> study_direction]
    /\ ret = <<>>

ApplyEach ==
    /\ ret = <<>>
    /\ ret' = [promoted |->
                 {i \in DOMAIN args.competing_values :
                     _is_trial_promotable_to_next_rung(
                         args.competing_values[i], args.competing_values,
                         args.reduction_factor, args.study_direction)}]
    /\ UNCHANGED <<config, store, pc, trial, rung, trials, result, writes, reads, prev, args>>

NextTop == ApplyEach

SpecTop == InitTop /\ [][NextTop]_vars

\* ================================================================= claims
\* What a call has done, read off its locals while it runs or returns.
Running(t) == pc[t] # "idle"
Returning(t) == pc[t] = "return"
HasStep(t) == trial[t].last_step # None
\* The rung the call started at, and that rung's threshold, written out.
StartRung(t) ==
    LET marked == DOMAIN trial[t].system_attrs
    IN  CHOOSE r \in 0..Cardinality(marked) :
            /\ _completed_rung_key(r) \notin marked
            /\ \A q \in 0..(r - 1) : _completed_rung_key(q) \in marked
Threshold(r) ==
    self._min_resource * self._reduction_factor ^ (self._min_early_stopping_rate + r)
WrittenKeys(t) == {writes[t][i][2] : i \in DOMAIN writes[t]}

\* ---------------------------------------------------------------------- C1
\* C1 as stated: a call that repeats the previous call of the trial (same last
\* step and value, no marker written by another trial since) returns what the
\* previous call returned.
C1_SameResultTwice ==
    \A t \in DOMAIN pc :
        (Returning(t) /\ prev[t] # "none") => (result[t] <=> (prev[t] # "continue"))

\* C1 amended: the repeated call returns what the previous call returned when
\* that call returned continue or pruned on NaN (and then it writes nothing);
\* whatever the previous call returned, the repeated call writes no marker for
\* a rung that had a marker when it started, and none twice.
C1_RepeatedCall ==
    \A t \in DOMAIN pc :
        (Running(t) /\ prev[t] # "none") =>
            /\ WrittenKeys(t) \cap DOMAIN trial[t].system_attrs = {}
            /\ Cardinality(WrittenKeys(t)) = Len(writes[t])
            /\ (Returning(t) /\ prev[t] \in {"continue", "prune_nan"}) =>
                   /\ result[t] <=> (prev[t] = "prune_nan")
                   /\ writes[t] = <<>>

\* A trial that was promoted at a rung and returned continue is asked again.
C1_Witness ==
    \E t \in DOMAIN pc :
        /\ Returning(t) /\ prev[t] = "continue" /\ ~ result[t]
        /\ trial[t].system_attrs # NoAttrs

\* ---------------------------------------------------------------------- C2
Best == IF direction = MINIMIZE THEN 5 ELSE 20
Rung0 == _completed_rung_key(0)
\* The call of t has taken the decision at rung 0 and is returning.
DecidedRung0(t) == Returning(t) /\ writes[t] # <<>>
\* value v is at least as good as value w in direction d
AsGoodIn(d, v, w) == IF d = MINIMIZE THEN v <= w ELSE v >= w
AsGood(v, w) == AsGoodIn(direction, v, w)
\* The values recorded at rung 0 in the snapshot of t's call.
Seen0(t) ==
    {trials[t][u].system_attrs[Rung0] :
        u \in {u \in DOMAIN trials[t] : Rung0 \in DOMAIN trials[t][u].system_attrs}}

\* C2 as stated: of the four trials with values 5, 10, 15 and 20 at rung 0, in
\* whatever order they take the decision, the best one is promoted and the
\* other three are pruned.
C2_OnlyBestPromoted ==
    \A t \in DOMAIN pc :
        DecidedRung0(t) => (result[t] <=> trial[t].value # Best)

\* C2 amended: the best trial is promoted whenever it decides; another trial is
\* pruned exactly when its snapshot holds a better value at rung 0, so all three
\* others are pruned when they take their snapshot after the best trial's
\* marker is written.
C2_PromotedIffBestSeen ==
    \A t \in DOMAIN pc :
        DecidedRung0(t) =>
            /\ trial[t].value = Best => ~ result[t]
            /\ result[t] <=> (\E w \in Seen0(t) : ~ AsGood(trial[t].value, w))
            /\ (Best \in Seen0(t) /\ trial[t].value # Best) => result[t]

\* The four trials have all recorded rung 0, and the last of them is pruned
\* against the three others' values.
C2_Witness ==
    \E t \in DOMAIN pc :
        /\ DecidedRung0(t) /\ result[t]
        /\ Cardinality(Seen0(t)) = 3
        /\ \A u \in DOMAIN pc : Rung0 \in DOMAIN system_attrs[u]

\* ---------------------------------------------------------------------- C3
\* The call was given a NaN value at a step at or above the threshold of the
\* trial's current rung.
NaNAtRung(t) ==
    /\ Running(t) /\ HasStep(t)
    /\ trial[t].value = NaN
    /\ trial[t].last_step >= Threshold(StartRung(t))

\* C3: a call for a trial whose last value is NaN and whose last step has
\* reached the threshold of its current rung returns prune, and writes nothing:
\* the trial's markers stay as the call found them.
C3_NaNPrunedWithoutMarker ==
    \A t \in DOMAIN pc :
        NaNAtRung(t) =>
            /\ pc[t] \in {"loop", "return"}
            /\ Returning(t) => result[t]
            /\ writes[t] = <<>>
            /\ system_attrs[t] = trial[t].system_attrs

\* A trial past rung 0 reports NaN beyond the next threshold and is pruned.
C3_Witness ==
    \E t \in DOMAIN pc :
        NaNAtRung(t) /\ Returning(t) /\ result[t] /\ StartRung(t) > 0

\* ---------------------------------------------------------------------- C4
\* C4: a call for a trial whose last step is below the threshold of its current
\* rung returns continue and writes nothing, whatever its value; and no call
\* returns prune for a step below
\* min_resource * reduction_factor ^ min_early_stopping_rate.
C4_NotPrunedBelowThreshold ==
    \A t \in DOMAIN pc :
        /\ (Running(t) /\ HasStep(t) /\ trial[t].last_step < Threshold(StartRung(t))) =>
               /\ pc[t] \in {"loop", "return"}
               /\ Returning(t) => ~ result[t]
               /\ writes[t] = <<>>
               /\ system_attrs[t] = trial[t].system_attrs
        /\ (Returning(t) /\ result[t]) =>
               trial[t].last_step >=
                   self._min_resource * self._reduction_factor ^ self._min_early_stopping_rate

\* A trial with a NaN value below the threshold of its rung returns continue,
\* while another trial has a marker at that rung.
C4_Witness ==
    \E t \in DOMAIN pc :
        /\ Returning(t) /\ HasStep(t) /\ ~ result[t]
        /\ trial[t].value = NaN
        /\ trial[t].last_step < Threshold(StartRung(t))
        /\ \E u \in DOMAIN pc :
              u # t /\ _completed_rung_key(StartRung(t)) \in DOMAIN system_attrs[u]

\* ---------------------------------------------------------------------- C5
\* C5: a call for a trial without a reported measurement returns continue,
\* writes no marker and does not read the trials of the study.
C5_NoMeasurementNoEffect ==
    \A t \in DOMAIN pc :
        (Running(t) /\ ~ HasStep(t)) =>
            /\ Returning(t) /\ ~ result[t]
            /\ writes[t] = <<>> /\ reads[t] = 0 /\ trials[t] = NoTrials
            /\ system_attrs[t] = trial[t].system_attrs

\* A trial without a measurement is asked while another trial has a marker.
C5_Witness ==
    \E t \in DOMAIN pc :
        /\ Returning(t) /\ ~ HasStep(t)
        /\ \E u \in DOMAIN pc : u # t /\ system_attrs[u] # NoAttrs


\* ---------------------------------------------------------------------- C6
MarkedRungs(attrs) == {k[2] : k \in DOMAIN attrs}

\* C6: in every reachable state the rungs a trial has a marker for are
\* 0, 1, ..., k-1: a marker for rung s+1 comes with a marker for rung s.
C6_MarkersArePrefix ==
    \A t \in DOMAIN system_attrs :
        /\ \A k \in DOMAIN system_attrs[t] : k = _completed_rung_key(k[2]) /\ k[2] >= 0
        /\ \A s \in MarkedRungs(system_attrs[t]) :
              s = 0 \/ (s - 1) \in MarkedRungs(system_attrs[t])

\* One trial has passed two rungs while another, with a marker at rung 0, is
\* in the middle of a call.
C6_Witness ==
    \E t, u \in DOMAIN system_attrs :
        /\ t # u
        /\ MarkedRungs(system_attrs[t]) = {0, 1}
        /\ MarkedRungs(system_attrs[u]) = {0}
        /\ pc[u] \in {"loop", "set", "decide"}

\* ---------------------------------------------------------------------- C7
\* C7: a step of any call keeps every marker there is, with its value, and a
\* marker is written only for a (trial, rung) pair that has none.
C7_MarkersWriteOnce ==
    [][\A t \in DOMAIN system_attrs :
          /\ \A k \in DOMAIN system_attrs[t] :
                k \in DOMAIN system_attrs'[t] /\ system_attrs'[t][k] = system_attrs[t][k]
          /\ Len(writes'[t]) = Len(writes[t]) + 1 =>
                LET w == writes'[t][Len(writes'[t])]
                IN  w[2] \notin DOMAIN system_attrs[w[1]]]_vars

\* A trial with a marker from an earlier call writes the marker of its next
\* rung with another value; the earlier marker keeps the value it had.
C7_Witness ==
    \E t \in DOMAIN pc :
        /\ Running(t) /\ writes[t] # <<>>
        /\ \E k \in DOMAIN trial[t].system_attrs :
              /\ system_attrs[t][k] = trial[t].system_attrs[k]
              /\ system_attrs[t][k] # trial[t].value

\* ---------------------------------------------------------------------- C8
\* The decision of t's call at rung r, against the snapshot of the call.
PromotedAt(t, r) ==
    _is_trial_promotable_to_next_rung(
        trial[t].value,
        _get_competing_values(trials[t], trial[t].value, _completed_rung_key(r)),
        self._reduction_factor, direction)

\* C8: the markers a call writes are those of consecutive rungs from the
\* trial's current rung upwards, in that order, each with the last reported
\* value and each at a rung whose threshold the last step has reached; a marker
\* is written only after promotion at every rung written before it; a call that
\* returns prune on a comparison was not promoted at the last rung it wrote;
\* a call that returns continue was promoted at every rung it wrote and the
\* step is below the threshold of the next one.
C8_RungsInOrder ==
    \A t \in DOMAIN pc :
        (Running(t) /\ HasStep(t)) =>
            LET n == Len(writes[t])
                start == StartRung(t)
                v == trial[t].value
            IN  /\ \A i \in 1..n :
                      /\ writes[t][i] = <<t, _completed_rung_key(start + i - 1), v>>
                      /\ trial[t].last_step >= Threshold(start + i - 1)
                /\ \A i \in 1..(n - 1) : PromotedAt(t, start + i - 1)
                /\ (Returning(t) /\ result[t] /\ v # NaN) =>
                      n >= 1 /\ ~ PromotedAt(t, start + n - 1)
                /\ (Returning(t) /\ ~ result[t]) =>
                      /\ n >= 1 => PromotedAt(t, start + n - 1)
                      /\ trial[t].last_step < Threshold(start + n)

\* Thresholds 1 and 4, no markers, first decision at step 5: the call writes
\* rung 0, is promoted, writes rung 1 and returns prune.
C8_Witness ==
    \E t \in DOMAIN pc :
        /\ Threshold(0) = 1 /\ Threshold(1) = 4
        /\ Returning(t) /\ result[t]
        /\ trial[t].system_attrs = NoAttrs /\ trial[t].last_step = 5
        /\ Len(writes[t]) = 2

\* ---------------------------------------------------------------------- C9
NumBelow(cv, x) == Cardinality({i \in DOMAIN cv : cv[i] < x})
NumAtMost(cv, x) == Cardinality({i \in DOMAIN cv : cv[i] <= x})
NumAbove(cv, x) == Cardinality({i \in DOMAIN cv : cv[i] > x})
NumAtLeast(cv, x) == Cardinality({i \in DOMAIN cv : cv[i] >= x})
\* The k-th smallest and the k-th largest element of a list, counted with repeats.
KthSmallest(cv, k) == CHOOSE x \in Range(cv) : NumBelow(cv, x) < k /\ k <= NumAtMost(cv, x)
KthLargest(cv, k) == CHOOSE x \in Range(cv) : NumAbove(cv, x) < k /\ k <= NumAtLeast(cv, x)
\* max(0, floor(n / reduction_factor) - 1)
CutoffIdx(n, reduction_factor) ==
    IF (n \div reduction_factor) - 1 > 0 THEN (n \div reduction_factor) - 1 ELSE 0
Applied == ret # <<>>

\* C9: for a value of a non-empty list of n competing values and
\* idx = max(0, floor(n / reduction_factor) - 1), the engine promotes under
\* minimize iff value <= the (idx+1)-th smallest of the list, and under maximize
\* iff value >= the (idx+1)-th largest; a value equal to the cutoff is promoted.
C9_PromotionCutoff ==
    Applied =>
        LET cv == args.competing_values
            idx == CutoffIdx(Len(cv), args.reduction_factor)
        IN  ret.promotable <=>
                IF args.study_direction = MINIMIZE
                THEN args.value <= KthSmallest(cv, idx + 1)
                ELSE args.value >= KthLargest(cv, idx + 1)

\* A value equal to the second largest of at least four values, not all of
\* them equal, is promoted under maximize.
C9_Witness ==
    /\ Applied /\ ret.promotable
    /\ args.study_direction = MAXIMIZE
    /\ CutoffIdx(Len(args.competing_values), args.reduction_factor) = 1
    /\ args.value = KthLargest(args.competing_values, 2)
    /\ \E x \in Range(args.competing_values) : x > args.value
    /\ \E x \in Range(args.competing_values) : x < args.value

\* --------------------------------------------------------------------- C10
\* C10: with fewer than reduction_factor values at the rung, the deciding
\* trial's own included, the trial is promoted iff no value of the list is
\* better than its own; a trial alone at the rung is promoted.
C10_EarlyArrival ==
    (Applied /\ Len(args.competing_values) < args.reduction_factor) =>
        /\ ret.promotable <=>
              \A x \in Range(args.competing_values) :
                  AsGoodIn(args.study_direction, args.value, x)
        /\ Len(args.competing_values) = 1 => ret.promotable

\* The second of three early arrivals, with a better value before it, is pruned.
C10_Witness ==
    /\ Applied /\ ~ ret.promotable
    /\ Len(args.competing_values) = 3 /\ args.reduction_factor = 4
    /\ \E x \in Range(args.competing_values) : x > args.value
    /\ \E x \in Range(args.competing_values) : x < args.value

\* --------------------------------------------------------------------- C11
\* max(1, floor(n / reduction_factor))
TopCount(n, reduction_factor) ==
    IF n \div reduction_factor > 1 THEN n \div reduction_factor ELSE 1

\* C11: of n pairwise distinct competing values the engine promotes, against
\* the list, exactly max(1, floor(n / reduction_factor)), and every promoted
\* value is better in the study direction than every value it does not promote.
C11_TopFraction ==
    Applied =>
        LET cv == args.competing_values IN
            /\ Cardinality(ret.promoted) = TopCount(Len(cv), args.reduction_factor)
            /\ \A i \in ret.promoted : \A j \in DOMAIN cv \ ret.promoted :
                  /\ AsGoodIn(args.study_direction, cv[i], cv[j])
                  /\ cv[i] # cv[j]

\* Five distinct values and reduction factor 2: two are promoted, three pruned.
C11_Witness ==
    /\ Applied
    /\ Len(args.competing_values) = 5 /\ args.reduction_factor = 2
    /\ Cardinality(ret.promoted) = 2
    /\ args.study_direction = MAXIMIZE

\* --------------------------------------------------------------------- C12
\* C12: a step of trial t's call leaves the last step and value of every trial
\* and the attributes of every other trial as they are, and adds nothing but
\* completion markers to t's own; the attributes of a trial change only in a
\* step of that trial's own call.
C12_NoCrossTrialWrites ==
    [][\A t \in DOMAIN pc :
          /\ pc'[t] # pc[t] =>
                /\ last_step' = last_step
                /\ intermediate_value' = intermediate_value
                /\ \A u \in DOMAIN pc \ {t} : system_attrs'[u] = system_attrs[u]
                /\ \A k \in DOMAIN system_attrs'[t] \ DOMAIN system_attrs[t] :
                      \E r \in 0..MaxStep : k = _completed_rung_key(r)
          /\ system_attrs'[t] # system_attrs[t] => pc[t] = "set" /\ pc'[t] = "decide"]_vars

\* Two trials are in their calls at once and each has written a marker.
C12_Witness ==
    \E t, u \in DOMAIN pc :
        /\ t # u
        /\ Running(t) /\ Running(u)
        /\ writes[t] # <<>> /\ writes[u] # <<>>
        /\ system_attrs[t] # NoAttrs /\ system_attrs[u] # NoAttrs

\* --------------------------------------------------------------------- C13
InvalidArgs ==
    \/ args.min_resource < 1
    \/ args.reduction_factor < 2
    \/ args.min_early_stopping_rate < 0

\* C13: __init__ raises ValueError exactly when min_resource < 1,
\* reduction_factor < 2 or min_early_stopping_rate < 0, and otherwise keeps the
\* three arguments; a call of prune runs only with min_resource >= 1,
\* reduction_factor >= 2 and min_early_stopping_rate >= 0.
C13_InvalidArgsRejected ==
    /\ ret # <<>> =>
          /\ ret.raised = "ValueError" <=> InvalidArgs
          /\ ret.raised = "ValueError" => self = NoPruner
          /\ ret.raised = "none" =>
                self = [_min_resource |-> args.min_resource,
                        _reduction_factor |-> args.reduction_factor,
                        _min_early_stopping_rate |-> args.min_early_stopping_rate]
    /\ \A t \in DOMAIN pc :
          Running(t) =>
              /\ Constructed
              /\ self._min_resource >= 1
              /\ self._reduction_factor >= 2
              /\ self._min_early_stopping_rate >= 0

\* min_early_stopping_rate = -1 with the other two arguments valid is rejected.
C13_Witness ==
    /\ ret # <<>> /\ ret.raised = "ValueError"
    /\ args.min_resource = 1 /\ args.reduction_factor = 2
    /\ args.min_early_stopping_rate = -1

\* --------------------------------------------------------------------- C14
\* C14: for the pruner of every valid configuration the threshold of rung s
\* is below the threshold of rung s + 1, for the rungs up to MaxRung.
C14_ThresholdIncreasing ==
    Constructed =>
        \A s \in 0..MaxRung : rung_promotion_step(s) < rung_promotion_step(s + 1)

\* A pruner with min_resource = 2 and min_early_stopping_rate = 1 has taken a
\* trial past rung 0 and computes the threshold of rung 1.
C14_Witness ==
    /\ Constructed
    /\ self._min_resource = 2 /\ self._min_early_stopping_rate = 1
    /\ \E t \in DOMAIN pc : pc[t] = "loop" /\ rung[t] = 1

\* --------------------------------------------------------------------- C15
\* The snapshot of t's call holds no marker at rung r.
Blind(t, r) ==
    /\ trials[t] # NoTrials
    /\ \A v \in DOMAIN trials[t] : _completed_rung_key(r) \notin DOMAIN trials[t][v].system_attrs
\* t's call has written rung r and taken the decision there.
DecidedAt(t, r) ==
    /\ Running(t)
    /\ _completed_rung_key(r) \in WrittenKeys(t)
    /\ rung[t] > r \/ (Returning(t) /\ rung[t] = r)
\* The store holds a marker of u at rung r with a value better than that of t's call.
BetterAt(u, t, r) ==
    /\ _completed_rung_key(r) \in DOMAIN system_attrs[u]
    /\ AsGood(system_attrs[u][_completed_rung_key(r)], trial[t].value)
    /\ system_attrs[u][_completed_rung_key(r)] # trial[t].value
\* The decision of t's call at rung r had its snapshot held u's markers of now.
PromotedHadItSeen(t, u, r) ==
    _is_trial_promotable_to_next_rung(
        trial[t].value,
        _get_competing_values(
            [trials[t] EXCEPT ![u] = [system_attrs |-> system_attrs[u]]],
            trial[t].value, _completed_rung_key(r)),
        self._reduction_factor, direction)

\* C15: a call whose snapshot holds no marker at rung r is promoted at r, also
\* when by then another trial has recorded a better value at r; with that
\* marker in its snapshot it would have been pruned.  So two trials that take
\* their snapshots before either writes are both promoted.
C15_StaleSnapshotPromotes ==
    \A t \in DOMAIN pc : \A r \in 0..MaxRung :
        (Blind(t, r) /\ DecidedAt(t, r)) =>
            /\ rung[t] > r
            /\ \A u \in DOMAIN pc \ {t} : BetterAt(u, t, r) => ~ PromotedHadItSeen(t, u, r)

\* Two trials at the same rung, each with a snapshot taken before the other's
\* marker was written: both are promoted, and the worse of them would have been
\* pruned with the other's marker in its snapshot.
C15_Witness ==
    \E t, u \in DOMAIN pc : \E r \in 0..MaxRung :
        /\ t # u
        /\ Blind(t, r) /\ Blind(u, r)
        /\ DecidedAt(t, r) /\ DecidedAt(u, r)
        /\ rung[t] > r /\ rung[u] > r
        /\ BetterAt(u, t, r)
        /\ ~ PromotedHadItSeen(t, u, r)

\* --------------------------------------------------------------------- C16
\* t's call is evaluating rung[t]: the snapshot is taken, the decision is not.
Evaluating(t) == pc[t] \in {"set", "decide"}
\* The competing values of the rung t's call is evaluating.
CompetingNow(t) ==
    _get_competing_values(trials[t], trial[t].value, _completed_rung_key(rung[t]))
\* The other trials that have a marker at that rung in the snapshot of t's call.
OthersAt(t) ==
    {u \in DOMAIN trials[t] \ {t} :
        _completed_rung_key(rung[t]) \in DOMAIN trials[t][u].system_attrs}
Occurrences(cv, x) == Cardinality({i \in DOMAIN cv : cv[i] = x})

\* C16: at every rung evaluation the snapshot holds no marker of the deciding
\* trial for the rung, and the competing values are the markers at the rung of
\* the other trials in the snapshot, one entry each, and one entry for the
\* deciding trial's value.
C16_OwnValueOnce ==
    \A t \in DOMAIN pc :
        Evaluating(t) =>
            LET key == _completed_rung_key(rung[t])
                cv == CompetingNow(t)
            IN  /\ key \notin DOMAIN trials[t][t].system_attrs
                /\ Len(cv) = Cardinality(OthersAt(t)) + 1
                /\ \A x \in Range(cv) \cup {trial[t].value} :
                      Occurrences(cv, x) =
                          Cardinality({u \in OthersAt(t) : trials[t][u].system_attrs[key] = x})
                          + (IF x = trial[t].value THEN 1 ELSE 0)

\* A trial with a marker of an earlier call evaluates its next rung against
\* another trial's marker that holds the same value as its own.
C16_Witness ==
    \E t \in DOMAIN pc :
        /\ pc[t] = "decide"
        /\ trial[t].system_attrs # NoAttrs
        /\ \E u \in OthersAt(t) :
              trials[t][u].system_attrs[_completed_rung_key(rung[t])] = trial[t].value

\* --------------------------------------------------------------------- C17
\* C17: a call reads the trials of the study at most once, and not at all when
\* it returns without having evaluated a rung; the snapshot it has read stays
\* the one it decides against until it returns, whatever the other trials write,
\* and its decision at each rung is the engine's answer for that snapshot.
C17_OneSnapshotPerCall ==
    /\ [](\A t \in DOMAIN pc :
            /\ reads[t] <= 1
            /\ reads[t] = 1 <=> trials[t] # NoTrials
            /\ (Returning(t) /\ writes[t] = <<>>) => reads[t] = 0
            /\ writes[t] # <<>> => reads[t] = 1)
    /\ [][\A t \in DOMAIN pc :
            /\ (trials[t] # NoTrials /\ pc'[t] # "idle") => trials'[t] = trials[t]
            /\ (pc[t] = "decide" /\ pc'[t] # "decide") =>
                  (pc'[t] = "loop" <=> PromotedAt(t, rung[t]))]_vars

\* A call evaluates its second rung against its snapshot after another trial
\* has written a marker the snapshot does not hold.
C17_Witness ==
    \E t \in DOMAIN pc :
        /\ pc[t] = "decide" /\ Len(writes[t]) = 2 /\ reads[t] = 1
        /\ \E u \in DOMAIN pc \ {t} : trials[t][u].system_attrs # system_attrs[u]

\* --------------------------------------------------------------------- C18
\* The values the snapshot of u's call holds at the rung it is evaluating.
SnapshotValuesAt(u) ==
    {trials[u][v].system_attrs[_completed_rung_key(rung[u])] :
        v \in {w \in DOMAIN trials[u] :
                  _completed_rung_key(rung[u]) \in DOMAIN trials[u][w].system_attrs}}
\* The store holds t's marker at rung r with the value of t's call.
Persisted(t, r) ==
    /\ _completed_rung_key(r) \in DOMAIN system_attrs[t]
    /\ system_attrs[t][_completed_rung_key(r)] = trial[t].value
\* The highest rung the store holds a marker of t for.
TopRung(t) ==
    CHOOSE r \in MarkedRungs(system_attrs[t]) : \A q \in MarkedRungs(system_attrs[t]) : q <= r

\* C18: when a call takes the decision at a rung, the store holds its marker
\* at that rung with the call's value, and so it does when the call returns
\* pruned by comparison at the rung; a snapshot holds every marker the store
\* holds when it is taken, and every value the snapshot holds at the rung being
\* evaluated is among the competing values of the decision.
C18_MarkerBeforeDecision ==
    /\ [](\A t \in DOMAIN pc :
            /\ pc[t] = "decide" => Persisted(t, rung[t])
            /\ (Returning(t) /\ Outcome(t) = "prune_compare") =>
                   /\ Persisted(t, rung[t])
                   /\ writes[t][Len(writes[t])] =
                          <<t, _completed_rung_key(rung[t]), trial[t].value>>
            /\ Evaluating(t) => SnapshotValuesAt(t) \subseteq Range(CompetingNow(t)))
    /\ [][\A u \in DOMAIN pc :
            (trials[u] = NoTrials /\ trials'[u] # NoTrials) =>
                \A v \in DOMAIN pc : trials'[u][v].system_attrs = system_attrs[v]]_vars

\* A trial was pruned by comparison at a rung; another trial has since taken
\* its snapshot and decides at that rung with the pruned value competing.
C18_Witness ==
    \E t, u \in DOMAIN pc :
        /\ t # u
        /\ pc[t] = "idle" /\ prev[t] = "prune_compare"
        /\ pc[u] = "set" /\ rung[u] = TopRung(t)
        /\ _completed_rung_key(rung[u]) \in DOMAIN trials[u][t].system_attrs
        /\ trials[u][t].system_attrs[_completed_rung_key(rung[u])] \in Range(CompetingNow(u))
        /\ trials[u][t].system_attrs[_completed_rung_key(rung[u])] # trial[u].value

\* --------------------------------------------------------------------- C19
\* The rungs whose threshold a trial at the given step has reached.
ReachedRungs(step) == {r \in 0..MaxRung : Threshold(r) <= step}

\* C19: the last step of a trial never decreases; a marker of a trial at a
\* rung means that its last step has reached the threshold of the rung; and
\* when a call for a trial with a measurement returns continue, the trial's
\* markers are those of the rungs whose threshold its last step has reached.
C19_MarkersMatchThresholds ==
    /\ [](\A t \in DOMAIN pc :
            /\ MarkedRungs(system_attrs[t]) \subseteq ReachedRungs(last_step[t])
            /\ (Returning(t) /\ ~ result[t] /\ HasStep(t)) =>
                   /\ trial[t].last_step = last_step[t]
                   /\ MarkedRungs(system_attrs[t]) = ReachedRungs(trial[t].last_step))
    /\ [][\A t \in DOMAIN pc : last_step'[t] >= last_step[t]]_vars

\* A call returns continue after it was promoted at rung 1, for a trial whose
\* last step has reached the thresholds of rungs 0 and 1 and no other.
C19_Witness ==
    \E t \in DOMAIN pc :
        /\ Returning(t) /\ ~ result[t] /\ HasStep(t)
        /\ writes[t] # <<>>
        /\ MarkedRungs(system_attrs[t]) = {0, 1}
        /\ Threshold(2) > trial[t].last_step

\* --------------------------------------------------------------------- C20
\* The passes through the loop head (line 108) that t's call has started: each
\* pass but the one in progress or returned from at lines 112 or 115 has
\* written a marker.
Iterations(t) ==
    IF ~ HasStep(t) THEN 0
    ELSE Len(writes[t]) +
         (IF pc[t] = "set" \/ (Returning(t) /\ Outcome(t) # "prune_compare") THEN 1 ELSE 0)
MaxIterations(t) == Cardinality(ReachedRungs(trial[t].last_step)) + 1
\* What is left of t's call, counted in steps: it falls with every step.
Remaining(t) ==
    IF Returning(t) THEN 0
    ELSE 4 * (MaxIterations(t) - Len(writes[t])) +
         (IF pc[t] = "loop" THEN 3 ELSE IF pc[t] = "set" THEN 2 ELSE 5)

\* C20: the scan for the current rung stops at the number of markers of the
\* trial; a call passes the loop head at most once per rung whose threshold the
\* last step has reached and once more; a call that has not returned has a step
\* to take, and every step of a call brings it closer to its return.
C20_CallTerminates ==
    /\ [](\A t \in DOMAIN pc :
            /\ _get_current_rung(FrozenTrial(t)) = Cardinality(DOMAIN system_attrs[t])
            /\ Running(t) =>
                   /\ rung[t] >= Cardinality(DOMAIN trial[t].system_attrs)
                   /\ Iterations(t) <= MaxIterations(t)
                   /\ Remaining(t) >= 0
                   /\ ENABLED (Loop(t) \/ SetAttr(t) \/ Decide(t) \/ Return(t)))
    /\ [][\A t \in DOMAIN pc :
            (Running(t) /\ pc'[t] # "idle" /\ pc'[t] # pc[t]) =>
                Remaining(t)' < Remaining(t)]_vars

\* A call passes the loop head three times: promoted at rungs 0 and 1, it
\* returns at rung 2, whose threshold the last step has not reached.
C20_Witness ==
    \E t \in DOMAIN pc :
        /\ Returning(t) /\ ~ result[t]
        /\ Iterations(t) = 3 /\ MaxIterations(t) = 3
        /\ StartRung(t) = 0 /\ rung[t] = 2

====
